---------------------------- MODULE Spec2Model ----------------------------
(***************************************************************************)
(* Model of the condition-matching engine of condition-task-list-trader:   *)
(* ConditionsMatcher (src/conditions_matcher.py), its Condition records    *)
(* (src/condition_parser.py) and the threads that drive it in src/main.py: *)
(*   - the feed thread, calling update_market_data;                        *)
(*   - the controlling (main) thread, calling start_matching,              *)
(*     stop_matching, conditions.clear() + add_conditions, and             *)
(*     reset_conditions, one call after the other;                         *)
(*   - the matcher thread, running _matching_loop.                         *)
(* Threads interleave between the statements shown as separate actions.    *)
(* TradeExecutor (src/trade_executor.py) is called from the trade callback *)
(* of src/main.py, on the matcher thread.                                  *)
(* Floats are modelled by the integers the scenarios use; fractions are    *)
(* kept exact by carrying their scale (hundredths, 1/10000, 1/1000).       *)
(***************************************************************************)
EXTENDS Integers, Sequences, FiniteSets, TLC

\* ------------------------------------------------------------------ bounds
\* Largest number of snapshots pending in task_queue that the model explores.
MaxQueue == 2

\* Largest number of entries of executed_trades that the model explores.
MaxTrades == 2

\* Last clock millisecond (and last day) that the model explores.
MaxClock == 1

\* The longest condition set explored where add_conditions grows the set.
MaxConds == 4

\* ------------------------------------------------------------ data model
\* Condition.current_value = None (condition_parser.py line 13).
NoValue == -1

\* An indicator key that is not in MarketData.indicators.
Absent == -2

\* A threshold or snapshot value that Python does not order against a float
\* (None, a str): comparing with it raises TypeError.
NotANumber == -3

Symbols == {"AAPL", "MSFT"}

IndicatorNames == {"RSI"}

\* MarketData(symbol, price, volume, indicators); the symbol travels in the
\* queue item, the timestamp is never read by the matcher.
MkData(p, v, rsi) == [price |-> p, volume |-> v, indicators |-> [k \in IndicatorNames |-> rsi]]

\* create_custom_scenario("oversold").
Oversold == MkData(120, 2000000, 25)

\* create_custom_scenario("volume_spike").
VolumeSpike == MkData(150, 5000000, 50)

\* generate_market_data before 14 prices are known: no 'RSI' key.
NoRsi == MkData(120, 2000000, Absent)

Snapshots == {Oversold, VolumeSpike, NoRsi}

\* What the feeds submit: (symbol, snapshot) pairs of two symbol streams.
FeedInputs == { <<"AAPL", Oversold>>, <<"AAPL", NoRsi>>, <<"MSFT", VolumeSpike>> }

\* matcher.market_data.get(symbol) when the symbol has no entry.
NoData == MkData(NoValue, NoValue, Absent)

\* Condition(task_id, description, indicator, operator, value) as the parser
\* builds it: completed = False, current_value = None.
Cond(id, ind, op, val) ==
    [task_id |-> id, indicator |-> ind, operator |-> op, value |-> val,
     completed |-> FALSE, current_value |-> NoValue]

\* "Condition Task List: RSI < 30, price < 150"
ListA == << Cond("task_1", "RSI", "<", 30), Cond("task_2", "Price", "<", 150) >>

\* "Condition Task List: price >= 150, volume > 2000000"
ListB == << Cond("task_1", "Price", ">=", 150), Cond("task_2", "Volume", ">", 2000000) >>

\* The parsed lists the controlling thread may install (never empty:
\* main.py line 132 skips an empty parse).
TaskLists == {ListA, ListB}

\* ----------------------------------------------------------------- state
VARIABLES
    conditions,          \* self.conditions
    market_data,         \* self.market_data
    task_queue,          \* self.task_queue
    running,             \* self.running
    matcher_thread,      \* self.matcher_thread: "None" or "Thread"
    mpc,                 \* where the matcher thread is ("dead": no live thread)
    mitem,               \* (symbol, data) taken by get_nowait
    midx,                \* position of the for loop over self.conditions
    conditions_updated,  \* local of _evaluate_conditions_for_symbol
    all_completed,       \* local of _evaluate_conditions_for_symbol
    cpc,                 \* where the controlling thread is
    cnew,                \* the parsed list it is installing
    cidx,                \* position of reset_conditions' for loop
    \* history variables, read only by the properties
    seen,                \* rules the current pass has evaluated
    pending,             \* snapshots submitted whose pass has not returned, oldest first
    episodeTriggers,     \* trade notifications since the set last became fully
                         \* satisfied, while it has stayed so (0, 1, 2+)
    stops                \* stop_matching calls returned since the last start (0, 1, 2+)

\* TradeExecutor and the clock it reads.
VARIABLES
    portfolio_value,     \* self.portfolio_value
    daily_pnl,           \* self.daily_pnl
    using_real_broker,   \* self.using_real_broker
    executed_trades,     \* self.executed_trades
    last_reset_date,     \* self.last_reset_date, in days
    clock,               \* int(time.time() * 1000), from the first millisecond explored
    today,               \* time.time() // 86400, from the first day explored
    \* history variable, read only by the properties
    call                 \* the latest execute_trade call: what it was given, sent and returned

\* A second thread that calls start_matching (the health monitor's recovery
\* action) and the _matching_loop thread it may start beside the first.
VARIABLES
    rpc,                 \* where the recovery thread is
    mpc2                 \* where a second _matching_loop thread is ("dead": none)

VARIABLES
    \* history variable, read only by the properties
    flipped,             \* an assignment of line 82 changed a flag in the current pass
    shown                \* what line 92 of the current pass handed to the update callbacks:
                         \* "nothing" (not called), a "satisfied" set or an "unsatisfied" one

\* The registered callbacks and the matcher thread's walk over them.
VARIABLES
    update_callbacks,    \* self.update_callbacks: what each callback does when called
    trade_callbacks,     \* self.trade_executed_callbacks, likewise
    cbidx,               \* position of the for loop of line 135 or 145
    \* history variable, read only by the properties
    invoked              \* positions of the callbacks the current notification has called

callbackVars == << update_callbacks, trade_callbacks, cbidx, invoked >>

\* HealthMonitor with the ConditionsEngineHealthCheck, and the threads that
\* call check_all: the monitoring loop and the health check server.
VARIABLES
    last_status,         \* check.last_status.status ("None" before the first check)
    hpc,                 \* where each thread is in check_all
    hstatus,             \* each thread's local status.status
    \* history variables, read only by the properties
    prev,                \* last_status as it was before the thread's check.check()
    alerted              \* the thread's latest check_all called _trigger_alert

healthVars == << last_status, hpc, hstatus, prev, alerted >>

recoveryVars == << rpc, mpc2 >>

executorVars == << portfolio_value, daily_pnl, using_real_broker, executed_trades,
                   last_reset_date, clock, today, call >>

vars == << conditions, market_data, task_queue, running, matcher_thread,
           mpc, mitem, midx, conditions_updated, all_completed,
           cpc, cnew, cidx, seen, pending, episodeTriggers, stops,
           portfolio_value, daily_pnl, using_real_broker, executed_trades,
           last_reset_date, clock, today, call, rpc, mpc2, flipped, shown,
           update_callbacks, trade_callbacks, cbidx, invoked,
           last_status, hpc, hstatus, prev, alerted >>

matcherVars == << mpc, mitem, midx, conditions_updated, all_completed, seen >>

controlVars == << cpc, cnew, cidx >>

Sat2(n) == IF n >= 2 THEN 2 ELSE n

\* q without its first element equal to x (q itself when x is not in q).
RECURSIVE RemoveFirst(_, _)
RemoveFirst(q, x) ==
    IF q = << >> THEN << >>
    ELSE IF Head(q) = x THEN Tail(q)
    ELSE << Head(q) >> \o RemoveFirst(Tail(q), x)

\* ------------------------------------------------- executor data model
\* RiskParameters.max_position_size (dollars).
max_position_size == 10000

\* RiskParameters.max_daily_loss (dollars).
max_daily_loss == 1000

\* RiskParameters.stop_loss_percentage = 0.02, in hundredths.
stop_loss_percentage == 2

\* RiskParameters.take_profit_percentage = 0.05, in hundredths.
take_profit_percentage == 5

\* RiskParameters.max_risk_per_trade = 0.01, in hundredths.
max_risk_per_trade == 1

\* _check_risk_limits: "order_value = current_price * 100  # Assuming 100 shares".
AssumedShares == 100

\* random.uniform(-0.0005, 0.0005): slippage is carried in 1/10000, so an
\* executed price is in 1/10000 dollar.
PriceScale == 10000

MaxSlippage == 5

\* "commission = trade_value * 0.001": carried in 1/1000 of the trade value's unit.
CommissionPerMille == 1

\* TradeExecutor(portfolio_value = 100000.0).
DefaultPortfolioValue == 100000

\* Optional[TradeExecution]: None.
NoExecution == [none |-> TRUE]

\* No execute_trade call has been made yet.
NoCall == [n |-> 0, symbol |-> "AAPL", data |-> NoData, pnl |-> 0,
           execution |-> NoExecution, sent |-> << >>, returned_at |-> "never"]

\* The matcher's locals outside a pass.
NoItem == [symbol |-> "AAPL", data |-> NoData]

\* The threads that call check_all: _monitoring_loop and the HTTP handler.
Checkers == {"monitor", "server"}

\* HealthCheck.__init__, line 32, and threads that have not called check_all.
HealthInit ==
    /\ last_status = "None"
    /\ hpc = [t \in Checkers |-> "idle"]
    /\ hstatus = [t \in Checkers |-> "None"]
    /\ prev = [t \in Checkers |-> "None"]
    /\ alerted = [t \in Checkers |-> FALSE]

\* ConditionsMatcher.__init__, lines 17-24.
MatcherInit ==
    /\ HealthInit
    /\ conditions = << >>
    /\ market_data = [s \in Symbols |-> NoData]
    /\ task_queue = << >>
    /\ running = FALSE
    /\ matcher_thread = "None"
    /\ mpc = "dead"
    /\ mitem = NoItem
    /\ midx = 1
    /\ conditions_updated = FALSE
    /\ all_completed = TRUE
    /\ cpc = "idle"
    /\ cnew = << >>
    /\ cidx = 1
    /\ seen = << >>
    /\ pending = << >>
    /\ episodeTriggers = 0
    /\ stops = 0
    /\ rpc = "idle"
    /\ mpc2 = "dead"
    /\ flipped = FALSE
    /\ shown = "nothing"
    /\ cbidx = 1
    /\ invoked = << >>

\* register_update_callback and register_trade_callback, lines 49-55, as
\* main calls them (main.py lines 70-71).
Registered(ucs, tcs) ==
    /\ update_callbacks = ucs
    /\ trade_callbacks = tcs

\* on_conditions_updated and on_trade_executed (main.py lines 45-68) return.
MainCallbacks == Registered(<< "returns" >>, << "returns" >>)

\* TradeExecutor.__init__, lines 40-52, for a portfolio value, a running
\* daily P&L and the outcome of _connect_to_brokers.
ExecutorInit(pv, pnl, real) ==
    /\ portfolio_value = pv
    /\ daily_pnl = pnl
    /\ using_real_broker = real
    /\ executed_trades = << >>
    /\ last_reset_date = 0
    /\ clock = 0
    /\ today = 0
    /\ call = NoCall

\* main.py lines 32-34: ConditionsMatcher() and TradeExecutor() with no
\* broker credentials configured.
Init == MatcherInit /\ MainCallbacks /\ ExecutorInit(DefaultPortfolioValue, 0, FALSE)

\* ------------------------------------------------- _evaluate_condition
\* Lines 106-113: which value the condition reads from the snapshot.
IndicatorAvailable(c, d) ==
    \/ c.indicator = "Price"
    \/ c.indicator = "Volume"
    \/ (c.indicator \in IndicatorNames /\ d.indicators[c.indicator] # Absent)

ReadIndicator(c, d) ==
    IF c.indicator = "Price" THEN d.price
    ELSE IF c.indicator = "Volume" THEN d.volume
    ELSE d.indicators[c.indicator]

\* A comparison that drops the "or equal" half of <= and >=.
CompareStrict(op, x, y) ==
    IF op = "<" \/ op = "<=" THEN x < y
    ELSE IF op = ">" \/ op = ">=" THEN x > y
    ELSE FALSE

\* Lines 118-128: the comparison; an operator that is none of the four gives False.
Compare(op, x, y) ==
    IF op = "<" THEN x < y
    ELSE IF op = ">" THEN x > y
    ELSE IF op = "<=" THEN x <= y
    ELSE IF op = ">=" THEN x >= y
    ELSE FALSE

\* Lines 119-126 raise: the operator is one of the four and an operand
\* cannot be ordered.
ComparisonRaises(op, x, y) ==
    op \in {"<", ">", "<=", ">="} /\ (x = NotANumber \/ y = NotANumber)

\* An except clause that counts the failed comparison as met.
TryCompareLenient(op, x, y) ==
    IF ComparisonRaises(op, x, y) THEN TRUE ELSE Compare(op, x, y)

\* Lines 118-131: the comparison inside try; the except clause returns False.
TryCompare(op, x, y) ==
    IF ComparisonRaises(op, x, y) THEN FALSE ELSE Compare(op, x, y)

\* A variant that keeps judging the stale current_value when the key is missing.
MissingIndicatorStale(c) ==
    [result |-> (c.current_value # NoValue /\ Compare(c.operator, c.current_value, c.value)),
     current_value |-> c.current_value]

\* Lines 112-113: the indicator is not available: return False before
\* condition.current_value is assigned.
MissingIndicator(c) ==
    [result |-> FALSE, current_value |-> c.current_value]

\* An evaluation that trusts a flag already set and skips the comparison.
EvaluateConditionCached(c, d) ==
    IF c.completed
    THEN [result |-> TRUE, current_value |-> c.current_value]
    ELSE IF IndicatorAvailable(c, d)
    THEN [result |-> TryCompare(c.operator, ReadIndicator(c, d), c.value),
          current_value |-> ReadIndicator(c, d)]
    ELSE MissingIndicator(c)

\* _evaluate_condition: the returned bool and the current_value it leaves
\* in the condition.
EvaluateCondition(c, d) ==
    IF IndicatorAvailable(c, d)
    THEN [result |-> TryCompare(c.operator, ReadIndicator(c, d), c.value),
          current_value |-> ReadIndicator(c, d)]
    ELSE MissingIndicator(c)

\* Line 94 as the set stands: non-empty and every condition completed.
AllSatisfied(cs) == cs # << >> /\ \A i \in 1..Len(cs) : cs[i].completed

\* The rule a condition stands for, without its evaluation state.
Rule(c) == [indicator |-> c.indicator, operator |-> c.operator, value |-> c.value]

Rules(cs) == [i \in 1..Len(cs) |-> Rule(cs[i])]

\* ------------------------------------------------------ feed thread
\* A Queue(maxsize=1) makes put wait while one item is pending.
QueueFullOne(q) == Len(q) >= 1

\* Queue() of line 20 has maxsize 0: put never finds the queue full.
QueueFull(q) == FALSE

\* An update_market_data that queues the snapshot only while the engine runs.
UpdateMarketDataWhenRunning(s, d) ==
    /\ Len(task_queue) < MaxQueue
    /\ market_data' = [market_data EXCEPT ![s] = d]
    /\ task_queue' = IF running THEN Append(task_queue, [symbol |-> s, data |-> d])
                     ELSE task_queue
    /\ pending' = IF running THEN Append(pending, [symbol |-> s, data |-> d])
                  ELSE pending
    /\ UNCHANGED << conditions, running, matcher_thread, matcherVars, controlVars,
                    episodeTriggers, stops >>
    /\ UNCHANGED executorVars
    /\ UNCHANGED recoveryVars
    /\ UNCHANGED healthVars
    /\ UNCHANGED shown
    /\ UNCHANGED callbackVars
    /\ UNCHANGED flipped

\* update_market_data, lines 31-34.
UpdateMarketData(s, d) ==
    /\ Len(task_queue) < MaxQueue
    /\ ~QueueFull(task_queue)
    /\ market_data' = [market_data EXCEPT ![s] = d]
    /\ task_queue' = Append(task_queue, [symbol |-> s, data |-> d])
    /\ pending' = Append(pending, [symbol |-> s, data |-> d])
    /\ UNCHANGED << conditions, running, matcher_thread, matcherVars, controlVars,
                    episodeTriggers, stops >>
    /\ UNCHANGED executorVars
    /\ UNCHANGED recoveryVars
    /\ UNCHANGED healthVars
    /\ UNCHANGED shown
    /\ UNCHANGED callbackVars
    /\ UNCHANGED flipped

\* ------------------------------------------------- controlling thread
\* start_matching, lines 36-41.  The caller runs its calls one after the
\* other, so a start that finds running False finds the old thread joined.
StartMatching ==
    /\ cpc = "idle"
    /\ IF ~running
       THEN /\ mpc = "dead"
            /\ running' = TRUE
            /\ matcher_thread' = "Thread"
            /\ mpc' = "loop"
            /\ stops' = 0
       ELSE UNCHANGED << running, matcher_thread, mpc, stops >>
    /\ UNCHANGED << conditions, market_data, task_queue, mitem, midx,
                    conditions_updated, all_completed, seen, controlVars,
                    pending, episodeTriggers >>
    /\ UNCHANGED executorVars
    /\ UNCHANGED recoveryVars
    /\ UNCHANGED healthVars
    /\ UNCHANGED shown
    /\ UNCHANGED callbackVars
    /\ UNCHANGED flipped

\* A stop that toggles the flag instead of clearing it.
StopValueToggle(r) == ~r

\* What stop_matching writes to self.running (line 45).
StopValue(r) == FALSE

\* stop_matching, line 45-46: clear the flag; with no thread object the call returns.
StopBegin ==
    /\ cpc = "idle"
    /\ running' = StopValue(running)
    /\ IF matcher_thread = "None"
       THEN /\ cpc' = "idle"
            /\ stops' = Sat2(stops + 1)
       ELSE /\ cpc' = "join"
            /\ stops' = stops
    /\ UNCHANGED << conditions, market_data, task_queue, matcher_thread, matcherVars,
                    cnew, cidx, pending, episodeTriggers >>
    /\ UNCHANGED executorVars
    /\ UNCHANGED recoveryVars
    /\ UNCHANGED healthVars
    /\ UNCHANGED shown
    /\ UNCHANGED callbackVars
    /\ UNCHANGED flipped

\* A join that gives up waiting (a timeout) returns whatever the thread does.
JoinReturnsEarly(pc) == TRUE

\* Thread.join, line 47: returns once the thread has ended.
JoinReturns(pc) == pc = "dead"

\* stop_matching, line 47.
StopJoin ==
    /\ cpc = "join"
    /\ JoinReturns(mpc)
    /\ cpc' = "idle"
    /\ stops' = Sat2(stops + 1)
    /\ UNCHANGED << conditions, market_data, task_queue, running, matcher_thread,
                    matcherVars, cnew, cidx, pending, episodeTriggers >>
    /\ UNCHANGED executorVars
    /\ UNCHANGED recoveryVars
    /\ UNCHANGED healthVars
    /\ UNCHANGED shown
    /\ UNCHANGED callbackVars
    /\ UNCHANGED flipped

\* main.py line 140: matcher.conditions.clear(), first half of a replacement.
ReplaceClear(new) ==
    /\ cpc = "idle"
    /\ conditions' = << >>
    /\ cnew' = new
    /\ cpc' = "extend"
    /\ episodeTriggers' = 0
    /\ UNCHANGED << market_data, task_queue, running, matcher_thread, matcherVars,
                    cidx, pending, stops >>
    /\ UNCHANGED executorVars
    /\ UNCHANGED recoveryVars
    /\ UNCHANGED healthVars
    /\ UNCHANGED shown
    /\ UNCHANGED callbackVars
    /\ UNCHANGED flipped

\* add_conditions, line 28: extend; line 29 then calls the update callbacks
\* on the caller's thread.
AddConditions ==
    /\ cpc = "extend"
    /\ conditions' = conditions \o cnew
    /\ cpc' = "add_cb"
    /\ episodeTriggers' = 0
    /\ UNCHANGED << market_data, task_queue, running, matcher_thread, matcherVars,
                    cnew, cidx, pending, stops >>
    /\ UNCHANGED executorVars
    /\ UNCHANGED recoveryVars
    /\ UNCHANGED healthVars
    /\ UNCHANGED shown
    /\ UNCHANGED callbackVars
    /\ UNCHANGED flipped

\* reset_conditions, line 169: the for loop starts.
ResetBegin ==
    /\ cpc = "idle"
    /\ cpc' = "reset"
    /\ cidx' = 1
    /\ UNCHANGED << conditions, market_data, task_queue, running, matcher_thread,
                    matcherVars, cnew, pending, episodeTriggers, stops >>
    /\ UNCHANGED executorVars
    /\ UNCHANGED recoveryVars
    /\ UNCHANGED healthVars
    /\ UNCHANGED shown
    /\ UNCHANGED callbackVars
    /\ UNCHANGED flipped

\* reset_conditions, lines 169-172: one iteration, or the end of the loop and
\* the call of the update callbacks.
ResetStep ==
    /\ cpc = "reset"
    /\ IF cidx <= Len(conditions)
       THEN /\ conditions' = [conditions EXCEPT ![cidx].completed = FALSE,
                                                ![cidx].current_value = NoValue]
            /\ cidx' = cidx + 1
            /\ cpc' = cpc
            /\ episodeTriggers' = 0
       ELSE /\ cpc' = "reset_cb"
            /\ UNCHANGED << conditions, cidx, episodeTriggers >>
    /\ UNCHANGED << market_data, task_queue, running, matcher_thread, matcherVars,
                    cnew, pending, stops >>
    /\ UNCHANGED executorVars
    /\ UNCHANGED recoveryVars
    /\ UNCHANGED healthVars
    /\ UNCHANGED shown
    /\ UNCHANGED callbackVars
    /\ UNCHANGED flipped

\* _notify_update, lines 135-139, on the caller's thread: the callback returns.
ControlCallbackReturn ==
    /\ cpc \in {"add_cb", "reset_cb"}
    /\ cpc' = "idle"
    /\ cnew' = << >>
    /\ cidx' = 1
    /\ UNCHANGED << conditions, market_data, task_queue, running, matcher_thread,
                    matcherVars, pending, episodeTriggers, stops >>
    /\ UNCHANGED executorVars
    /\ UNCHANGED recoveryVars
    /\ UNCHANGED healthVars
    /\ UNCHANGED shown
    /\ UNCHANGED callbackVars
    /\ UNCHANGED flipped

\* ----------------------------------------------------- matcher thread
\* _matching_loop, line 59: while self.running.
LoopCheck ==
    /\ mpc = "loop"
    /\ mpc' = IF running THEN "drain" ELSE "dead"
    /\ UNCHANGED << conditions, market_data, task_queue, running, matcher_thread,
                    mitem, midx, conditions_updated, all_completed, seen,
                    controlVars, pending, episodeTriggers, stops >>
    /\ UNCHANGED executorVars
    /\ UNCHANGED recoveryVars
    /\ UNCHANGED healthVars
    /\ UNCHANGED shown
    /\ UNCHANGED callbackVars
    /\ UNCHANGED flipped

\* A LifoQueue would hand out the newest item first.
QueueTakeLifo(q) == [item |-> q[Len(q)], rest |-> SubSeq(q, 1, Len(q) - 1)]

\* A get that discards everything behind the item it returns.
QueueTakeDropping(q) == [item |-> Head(q), rest |-> << >>]

\* queue.Queue.get_nowait, line 63: the oldest item.
QueueTake(q) == [item |-> Head(q), rest |-> Tail(q)]

\* Lines 62-67: the inner loop tests only task_queue.empty(); an empty queue
\* leads to sleep(0.1) and back to line 59; otherwise the next item is taken
\* and _evaluate_conditions_for_symbol starts (lines 76-77).
Drain ==
    /\ mpc = "drain"
    /\ IF task_queue = << >>
       THEN /\ mpc' = "loop"
            /\ UNCHANGED << task_queue, mitem, midx, conditions_updated,
                            all_completed, seen, flipped, shown >>
       ELSE /\ mitem' = QueueTake(task_queue).item
            /\ task_queue' = QueueTake(task_queue).rest
            /\ midx' = 1
            /\ conditions_updated' = FALSE
            /\ all_completed' = TRUE
            /\ seen' = << >>
            /\ flipped' = FALSE
            /\ shown' = "nothing"
            /\ mpc' = "eval"
    /\ UNCHANGED << conditions, market_data, running, matcher_thread,
                    controlVars, pending, episodeTriggers, stops >>
    /\ UNCHANGED executorVars
    /\ UNCHANGED recoveryVars
    /\ UNCHANGED healthVars
    /\ UNCHANGED callbackVars

\* Lines 79-88: one iteration of the for loop over the live list
\* self.conditions (the list iterator stops when its index passes the end).
EvalStep ==
    /\ mpc = "eval"
    /\ IF midx <= Len(conditions)
       THEN LET c == conditions[midx]
                r == EvaluateCondition(c, mitem.data)
            IN  /\ conditions' = [conditions EXCEPT ![midx].completed = r.result,
                                                     ![midx].current_value = r.current_value]
                /\ conditions_updated' = (conditions_updated \/ (r.result # c.completed))
                /\ all_completed' = (all_completed /\ r.result)
                /\ midx' = midx + 1
                /\ seen' = Append(seen, Rule(c))
                /\ episodeTriggers' = IF r.result THEN episodeTriggers ELSE 0
                /\ flipped' = (flipped \/ (r.result # c.completed))
                /\ mpc' = mpc
       ELSE /\ mpc' = "notify"
            /\ UNCHANGED << conditions, conditions_updated, all_completed, midx,
                            seen, episodeTriggers, flipped >>
    /\ UNCHANGED << market_data, task_queue, running, matcher_thread, mitem,
                    controlVars, pending, stops >>
    /\ UNCHANGED executorVars
    /\ UNCHANGED recoveryVars
    /\ UNCHANGED healthVars
    /\ UNCHANGED shown
    /\ UNCHANGED callbackVars

\* Lines 91-92: _notify_update is called when a flag changed.
NotifyCheck ==
    /\ mpc = "notify"
    /\ mpc' = IF conditions_updated THEN "update_cb" ELSE "check_fire"
    /\ shown' = IF ~conditions_updated THEN shown
                ELSE IF AllSatisfied(conditions) THEN "satisfied" ELSE "unsatisfied"
    /\ UNCHANGED << conditions, market_data, task_queue, running, matcher_thread,
                    mitem, midx, conditions_updated, all_completed, seen,
                    controlVars, pending, episodeTriggers, stops >>
    /\ UNCHANGED executorVars
    /\ UNCHANGED recoveryVars
    /\ UNCHANGED healthVars
    /\ UNCHANGED callbackVars
    /\ UNCHANGED flipped

\* Lines 135-139: the update callback returns (or raises and is caught).
UpdateCallbackReturn ==
    /\ mpc = "update_cb"
    /\ mpc' = "check_fire"
    /\ UNCHANGED << conditions, market_data, task_queue, running, matcher_thread,
                    mitem, midx, conditions_updated, all_completed, seen,
                    controlVars, pending, episodeTriggers, stops >>
    /\ UNCHANGED executorVars
    /\ UNCHANGED recoveryVars
    /\ UNCHANGED healthVars
    /\ UNCHANGED shown
    /\ UNCHANGED callbackVars
    /\ UNCHANGED flipped

\* _evaluate_conditions_for_symbol returns: its locals are gone and the
\* snapshot has had its pass.
PassReturns ==
    /\ mpc' = "drain"
    /\ mitem' = NoItem
    /\ midx' = 1
    /\ conditions_updated' = FALSE
    /\ all_completed' = TRUE
    /\ seen' = << >>
    /\ pending' = RemoveFirst(pending, mitem)

\* A latch that is set by the first executed trade and never cleared.
ShouldFireLatched(all, cs) == all /\ cs # << >> /\ executed_trades = << >>

\* Line 94: if all_completed and self.conditions.
ShouldFire(all, cs) == all /\ cs # << >>

\* Lines 94-95: decide whether to call _execute_trade; if not, the pass returns.
CheckFire ==
    /\ mpc = "check_fire"
    /\ IF ShouldFire(all_completed, conditions)
       THEN /\ mpc' = "exec_trade"
            /\ UNCHANGED << mitem, midx, conditions_updated, all_completed, seen, pending >>
       ELSE PassReturns
    /\ UNCHANGED << conditions, market_data, task_queue, running, matcher_thread,
                    controlVars, episodeTriggers, stops >>
    /\ UNCHANGED executorVars
    /\ UNCHANGED recoveryVars
    /\ UNCHANGED healthVars
    /\ UNCHANGED shown
    /\ UNCHANGED callbackVars
    /\ UNCHANGED flipped

\* _execute_trade, lines 143-147: after the print, the trade callback is
\* called with (symbol, self.conditions).
ExecuteTrade ==
    /\ mpc = "exec_trade"
    /\ mpc' = "trade_cb"
    /\ episodeTriggers' = IF AllSatisfied(conditions)
                           THEN Sat2(episodeTriggers + 1)
                           ELSE 0
    /\ UNCHANGED << conditions, market_data, task_queue, running, matcher_thread,
                    mitem, midx, conditions_updated, all_completed, seen,
                    controlVars, pending, stops >>
    /\ UNCHANGED executorVars
    /\ UNCHANGED recoveryVars
    /\ UNCHANGED healthVars
    /\ UNCHANGED shown
    /\ UNCHANGED callbackVars
    /\ UNCHANGED flipped

\* Lines 145-149: the trade callback returns (or raises and is caught); the
\* pass returns to the inner loop of _matching_loop.
TradeCallbackReturn ==
    /\ mpc = "trade_cb"
    /\ PassReturns
    /\ UNCHANGED << conditions, market_data, task_queue, running, matcher_thread,
                    controlVars, episodeTriggers, stops >>
    /\ UNCHANGED executorVars
    /\ UNCHANGED recoveryVars
    /\ UNCHANGED healthVars
    /\ UNCHANGED shown
    /\ UNCHANGED callbackVars
    /\ UNCHANGED flipped

\* ------------------------------------------------------ trade executor
\* Everything that is not the executor's.
engineVars == << conditions, market_data, task_queue, running, matcher_thread,
                 mpc, mitem, midx, conditions_updated, all_completed,
                 cpc, cnew, cidx, seen, pending, episodeTriggers, stops, flipped, shown,
                 update_callbacks, trade_callbacks, cbidx, invoked >>

\* _check_risk_limits, lines 145-160.
CheckRiskLimits(pnl, d) ==
    IF pnl < -max_daily_loss THEN FALSE
    ELSE IF d.price * AssumedShares > max_position_size THEN FALSE
    ELSE TRUE

\* int(a / b) of line 176: the quotient truncated toward zero.
Trunc(a, b) ==
    LET abs(x) == IF x < 0 THEN -x ELSE x
        q == abs(a) \div abs(b)
    IN  IF (a < 0) # (b < 0) THEN -q ELSE q

\* A sizing that rounds the share count up instead of down.
CalculatePositionSizeCeil(pv, d) ==
    Trunc(pv * max_risk_per_trade + d.price * stop_loss_percentage - 1,
          d.price * stop_loss_percentage)

\* _calculate_position_size, lines 162-178; both amounts are in hundredths
\* of a dollar.
CalculatePositionSize(pv, d) ==
    Trunc(pv * max_risk_per_trade, d.price * stop_loss_percentage)

\* TradeOrder; None is NoValue.
MkOrder(s, type, q, p, stop, tif) ==
    [symbol |-> s, order_type |-> type, quantity |-> q, price |-> p,
     stop_price |-> stop, time_in_force |-> tif]

\* An order left with the broker for the day instead of immediate-or-cancel.
CreateOrderDay(s, d, q) == MkOrder(s, "market", q, d.price, NoValue, "DAY")

\* _create_order, lines 180-191.
CreateOrder(s, d, q) == MkOrder(s, "market", q, d.price, NoValue, "IOC")

\* execution_id = f"EXEC_{int(time.time() * 1000)}", line 212.
ExecutionId(now) == << "EXEC", now >>

\* A commission charged on the order's price, before slippage.
CommissionOnOrderPrice(order, executed_price) ==
    order.price * PriceScale * order.quantity * CommissionPerMille

\* Lines 204-205: trade_value = executed_price * order.quantity and
\* commission = trade_value * 0.001, in 1/1000 of 1/10000 dollar.
Commission(order, executed_price) ==
    (executed_price * order.quantity) * CommissionPerMille

\* _simulate_execution, lines 193-220, for a slippage drawn by
\* random.uniform and the clock's reading.
SimulateExecution(order, d, slip, now) ==
    LET executed_price == d.price * (PriceScale + slip)
    IN  [order |-> order,
         executed_price |-> executed_price,
         executed_quantity |-> order.quantity,
         timestamp |-> now,
         execution_id |-> ExecutionId(now),
         commission |-> Commission(order, executed_price)]

\* What active_broker.place_order does with the primary order: it fills it,
\* returns None (its own except clauses, broker_integrations.py lines 155-157)
\* or lets an exception out.
BrokerOutcomes == {"filled", "none", "raise"}

\* A place_order that filled the order (broker_integrations.py lines 146-153):
\* the broker's own order id, no commission.
BrokerFill(order, now, k) ==
    [order |-> order,
     executed_price |-> order.price * PriceScale,
     executed_quantity |-> order.quantity,
     timestamp |-> now,
     execution_id |-> << "BROKER", k >>,
     commission |-> 0]

\* _execute_real_broker, lines 101-111: only an exception leads to the
\* simulated fill; a None from the broker is returned as it is.
ExecuteRealBroker(order, d, slip, now, outcome, k) ==
    IF outcome = "raise" THEN SimulateExecution(order, d, slip, now)
    ELSE IF outcome = "filled" THEN BrokerFill(order, now, k)
    ELSE NoExecution

\* Where the primary order went: the broker, then the simulator when the
\* broker raised.
PrimarySent(order, real, outcome) ==
    IF ~real THEN << [to |-> "simulator", order |-> order] >>
    ELSE IF outcome = "raise"
         THEN << [to |-> "broker", order |-> order], [to |-> "simulator", order |-> order] >>
         ELSE << [to |-> "broker", order |-> order] >>

\* _set_broker_risk_orders, lines 113-143: a stop and a limit order for the
\* executed quantity go to the broker; their prices are in 1/100 of 1/10000 dollar.
RiskOrdersSent(e) ==
    << [to |-> "broker",
        order |-> MkOrder(e.order.symbol, "stop", e.executed_quantity, NoValue,
                          e.executed_price * (100 - stop_loss_percentage), "IOC")],
       [to |-> "broker",
        order |-> MkOrder(e.order.symbol, "limit", e.executed_quantity,
                          e.executed_price * (100 + take_profit_percentage), NoValue, "IOC")] >>

\* execute_trade, lines 67-99, as a function of the executor's fields and
\* of what the call meets: the execution it returns, the orders it sent and
\* the return statement it left by.
ExecuteTradeResult(pv, pnl, real, s, d, slip, outcome, now, k) ==
    LET position_size == CalculatePositionSize(pv, d)
        order == CreateOrder(s, d, position_size)
        execution == IF real
                     THEN ExecuteRealBroker(order, d, slip, now, outcome, k)
                     ELSE SimulateExecution(order, d, slip, now)
    IN  IF ~CheckRiskLimits(pnl, d)
        THEN [execution |-> NoExecution, sent |-> << >>, returned_at |-> "risk"]
        ELSE IF position_size <= 0
        THEN [execution |-> NoExecution, sent |-> << >>, returned_at |-> "size"]
        ELSE [execution |-> execution,
              sent |-> PrimarySent(order, real, outcome)
                       \o (IF execution # NoExecution /\ real
                           THEN RiskOrdersSent(execution) ELSE << >>),
              returned_at |-> "end"]

\* A ledger that keeps only the latest execution.
LedgerOverwrite(l, e) == << e >>

\* Line 92: self.executed_trades.append(execution).
LedgerAppend(l, e) == Append(l, e)

\* execute_trade, lines 67-99: its effect on the executor.
ExecuteTradeCall(s, d, slip, outcome) ==
    LET r == ExecuteTradeResult(portfolio_value, daily_pnl, using_real_broker,
                                s, d, slip, outcome, clock, Len(executed_trades) + 1)
    IN  /\ (r.execution # NoExecution => Len(executed_trades) < MaxTrades)
        /\ executed_trades' = IF r.execution # NoExecution
                              THEN LedgerAppend(executed_trades, r.execution)
                              ELSE executed_trades
        /\ call' = [n |-> 1 - call.n, symbol |-> s, data |-> d, pnl |-> daily_pnl,
                    execution |-> r.execution, sent |-> r.sent,
                    returned_at |-> r.returned_at]
        /\ UNCHANGED << portfolio_value, daily_pnl, using_real_broker,
                        last_reset_date, clock, today >>

\* The slippages explored: both ends of random.uniform's range.
Slippages == {-MaxSlippage, MaxSlippage}

\* Snapshots a caller hands to execute_trade: prices whose 100-share value
\* is under and over max_position_size.
ExecData == { MkData(p, 2000000, 25) : p \in {90, 120} }

\* execute_trade called directly, engine idle.
ExecutorExecuteTrade ==
    /\ \E d \in ExecData, slip \in Slippages, outcome \in BrokerOutcomes :
           ExecuteTradeCall("AAPL", d, slip, outcome)
    /\ UNCHANGED engineVars
    /\ UNCHANGED healthVars
    /\ UNCHANGED recoveryVars

\* get_portfolio_status, lines 249-264: reads the ledger and the fields.
GetPortfolioStatus ==
    [portfolio_value |-> portfolio_value,
     daily_pnl |-> daily_pnl,
     trade_count |-> Len(executed_trades)]

\* A reset that clears the daily P&L on every call, whatever the day.
ResetDailyAccountAlways ==
    /\ daily_pnl' = 0
    /\ last_reset_date' = today
    /\ UNCHANGED << portfolio_value, using_real_broker, executed_trades, clock, today, call >>
    /\ UNCHANGED engineVars
    /\ UNCHANGED healthVars
    /\ UNCHANGED recoveryVars

\* reset_daily_account, lines 266-272.
ResetDailyAccount ==
    /\ IF today > last_reset_date
       THEN /\ daily_pnl' = 0
            /\ last_reset_date' = today
       ELSE UNCHANGED << daily_pnl, last_reset_date >>
    /\ UNCHANGED << portfolio_value, using_real_broker, executed_trades, clock, today, call >>
    /\ UNCHANGED engineVars
    /\ UNCHANGED healthVars
    /\ UNCHANGED recoveryVars

\* time.time() moves to the next millisecond.
Tick ==
    /\ clock < MaxClock
    /\ clock' = clock + 1
    /\ UNCHANGED << portfolio_value, daily_pnl, using_real_broker, executed_trades,
                    last_reset_date, today, call >>
    /\ UNCHANGED engineVars
    /\ UNCHANGED healthVars
    /\ UNCHANGED recoveryVars

\* time.time() // 86400 moves to the next day.
NewDay ==
    /\ today < MaxClock
    /\ today' = today + 1
    /\ UNCHANGED << portfolio_value, daily_pnl, using_real_broker, executed_trades,
                    last_reset_date, clock, call >>
    /\ UNCHANGED engineVars
    /\ UNCHANGED healthVars
    /\ UNCHANGED recoveryVars

\* main.py line 59: the word on_trade_executed prints for an execution;
\* it is chosen by the executor's using_real_broker, the TradeExecution
\* (lines 17-24) has no field that tells where the fill came from.
TradeTypeReported(real) == IF real THEN "REAL" ELSE "SIMULATED"

\* on_trade_executed, main.py lines 45-62, as the trade callback of lines
\* 145-149: it reads matcher.market_data.get(symbol) and, when there is an
\* entry, calls execute_trade; then the pass returns.
OnTradeExecuted ==
    /\ mpc = "trade_cb"
    /\ IF market_data[mitem.symbol] # NoData
       THEN \E slip \in Slippages, outcome \in BrokerOutcomes :
                ExecuteTradeCall(mitem.symbol, market_data[mitem.symbol], slip, outcome)
       ELSE UNCHANGED executorVars
    /\ PassReturns
    /\ UNCHANGED << conditions, market_data, task_queue, running, matcher_thread,
                    controlVars, episodeTriggers, stops >>
    /\ UNCHANGED recoveryVars
    /\ UNCHANGED healthVars
    /\ UNCHANGED shown
    /\ UNCHANGED callbackVars
    /\ UNCHANGED flipped

\* ------------------------------------------------------ specification
Feed == \E in \in FeedInputs : UpdateMarketData(in[1], in[2])

Replace == \E new \in TaskLists : ReplaceClear(new)

Matcher ==
    \/ LoopCheck
    \/ Drain
    \/ EvalStep
    \/ NotifyCheck
    \/ UpdateCallbackReturn
    \/ CheckFire
    \/ ExecuteTrade
    \/ TradeCallbackReturn

Control ==
    \/ StartMatching
    \/ StopBegin
    \/ StopJoin
    \/ Replace
    \/ AddConditions
    \/ ResetBegin
    \/ ResetStep
    \/ ControlCallbackReturn

Next == Feed \/ Matcher \/ Control

Spec == Init /\ [][Next]_vars

\* The matcher thread is scheduled whenever it can run (its callbacks
\* return), and the controlling thread finishes a call it has begun; the
\* feed and the user's next command are under no obligation.
ControlProgress == StopJoin \/ AddConditions \/ ResetStep \/ ControlCallbackReturn

FairSpec == Spec /\ WF_vars(Matcher) /\ WF_vars(ControlProgress)

\* ---------------------------------- specification of _evaluate_condition
\* The operators the parser accepts (condition_parser.py).
Operators == {"<", ">", "<=", ">="}

\* One condition with threshold 30 on each kind of indicator.
EvalConds == { Cond("task_1", ind, op, 30) : ind \in {"RSI", "Price", "Volume"}, op \in Operators }

\* Snapshots whose values lie below, on and above the threshold, and
\* snapshots without the RSI key.
EvalData == { MkData(p, v, r) : p \in {29, 30, 31}, v \in {29, 30, 31}, r \in {29, 30, 31, Absent} }

\* A started engine holding one parsed condition whose matcher thread has
\* taken one snapshot from the queue (lines 63-64, 76-77).
EvalInit ==
    \E c \in EvalConds, d \in EvalData :
        /\ conditions = << c >>
        /\ market_data = [s \in Symbols |-> IF s = "AAPL" THEN d ELSE NoData]
        /\ task_queue = << >>
        /\ running = TRUE
        /\ matcher_thread = "Thread"
        /\ mpc = "eval"
        /\ mitem = [symbol |-> "AAPL", data |-> d]
        /\ midx = 1
        /\ conditions_updated = FALSE
        /\ all_completed = TRUE
        /\ cpc = "idle"
        /\ cnew = << >>
        /\ cidx = 1
        /\ seen = << >>
        /\ pending = << [symbol |-> "AAPL", data |-> d] >>
        /\ episodeTriggers = 0
        /\ stops = 0
        /\ rpc = "idle"
        /\ mpc2 = "dead"
        /\ flipped = FALSE
        /\ shown = "nothing"
        /\ HealthInit
        /\ cbidx = 1
        /\ invoked = << >>
        /\ MainCallbacks
        /\ ExecutorInit(DefaultPortfolioValue, 0, FALSE)

\* The matcher thread evaluates the snapshot and finishes its pass.
EvalSpec == EvalInit /\ [][Matcher]_vars

\* ------------------------------------------- specification of the executor
\* An executor constructed with the default portfolio or one too small for
\* a share (100 dollars), with or
\* without a connected broker, whose running daily P&L is nil, on the loss
\* limit or beyond it.
ExecInit ==
    /\ MatcherInit
    /\ MainCallbacks
    /\ \E pv \in {DefaultPortfolioValue, 100},
          pnl \in {0, -max_daily_loss, -1200},
          real \in BOOLEAN :
           ExecutorInit(pv, pnl, real)

ExecNext == ExecutorExecuteTrade \/ ResetDailyAccount \/ Tick \/ NewDay

ExecSpec == ExecInit /\ [][ExecNext]_vars

\* ------------------------------- specification of engine and executor
\* generate_market_data: a price within its bounds [50, 250] whose
\* 100-share value passes the risk check.
Cheap == MkData(80, 2000000, 25)

TraderFeedInputs == { <<"AAPL", Cheap>>, <<"AAPL", Oversold>> }

TraderFeed == \E in \in TraderFeedInputs : UpdateMarketData(in[1], in[2])

\* main.py: the list is installed, the engine is started, the feed runs and
\* every trigger calls on_trade_executed.
TraderNext ==
    \/ TraderFeed
    \/ ReplaceClear(ListA)
    \/ AddConditions
    \/ ControlCallbackReturn
    \/ StartMatching
    \/ LoopCheck
    \/ Drain
    \/ EvalStep
    \/ NotifyCheck
    \/ UpdateCallbackReturn
    \/ CheckFire
    \/ ExecuteTrade
    \/ OnTradeExecuted
    \/ Tick

TraderSpec == Init /\ [][TraderNext]_vars

\* _connect_to_brokers found a broker: the trade callback places its orders
\* through broker_manager.
BrokerTraderInit == MatcherInit /\ MainCallbacks /\ ExecutorInit(DefaultPortfolioValue, 0, TRUE)

BrokerTraderSpec == BrokerTraderInit /\ [][TraderNext]_vars

\* ------------------------- a start_matching issued by the recovery action
\* restart_conditions_engine (production_main.py lines 125-134) has found
\* matcher.running False on the thread that handles a health alert;
\* start_matching, lines 39-41, then sets the flag, makes a new Thread and
\* starts it, whatever the thread started earlier is doing.
RecoveryStart ==
    /\ rpc = "starting"
    /\ rpc' = "idle"
    /\ running' = TRUE
    /\ matcher_thread' = "Thread"
    /\ stops' = 0
    /\ IF mpc = "dead"
       THEN mpc' = "loop" /\ mpc2' = mpc2
       ELSE mpc2 = "dead" /\ mpc2' = "loop" /\ mpc' = mpc
    /\ UNCHANGED << conditions, market_data, task_queue, mitem, midx,
                    conditions_updated, all_completed, controlVars, seen, pending,
                    episodeTriggers, executorVars, flipped, shown, callbackVars, healthVars >>

\* _matching_loop, line 59, in the second thread.
LoopCheck2 ==
    /\ mpc2 = "loop"
    /\ mpc2' = IF running THEN "drain" ELSE "dead"
    /\ UNCHANGED << rpc, engineVars, executorVars, healthVars >>

\* _matching_loop, lines 62 and 67, in the second thread: the queue is
\* empty (nothing is fed here), the thread sleeps and goes back to line 59.
Drain2 ==
    /\ mpc2 = "drain"
    /\ task_queue = << >>
    /\ mpc2' = "loop"
    /\ UNCHANGED << rpc, engineVars, executorVars, healthVars >>

\* ------------- specification of a pass at the grain of its two field writes
\* Line 81 and the call of _evaluate_condition of line 82, up to its return:
\* current_value is assigned when the snapshot holds the indicator (line
\* 115) and the result is computed.  The locals of lines 84-88 depend only
\* on was_completed and on that result; they are settled here.
EvalRead ==
    /\ mpc = "eval"
    /\ IF midx <= Len(conditions)
       THEN LET c == conditions[midx]
                r == EvaluateCondition(c, mitem.data)
            IN  /\ conditions' = [conditions EXCEPT ![midx].current_value = r.current_value]
                /\ conditions_updated' = (conditions_updated \/ (r.result # c.completed))
                /\ all_completed' = (all_completed /\ r.result)
                /\ seen' = Append(seen, Rule(c))
                /\ mpc' = "eval_write"
       ELSE /\ mpc' = "notify"
            /\ UNCHANGED << conditions, conditions_updated, all_completed, seen >>
    /\ UNCHANGED << market_data, task_queue, running, matcher_thread, mitem, midx,
                    controlVars, pending, episodeTriggers, stops >>
    /\ UNCHANGED executorVars
    /\ UNCHANGED recoveryVars
    /\ UNCHANGED healthVars
    /\ UNCHANGED shown
    /\ UNCHANGED callbackVars
    /\ UNCHANGED flipped

\* Line 82: condition.completed = <the returned result>; the result is the
\* one the rule gave on the snapshot, whatever was written to the
\* condition's fields since.
EvalWrite ==
    /\ mpc = "eval_write"
    /\ LET c == conditions[midx]
           result == IndicatorAvailable(c, mitem.data)
                     /\ TryCompare(c.operator, ReadIndicator(c, mitem.data), c.value)
       IN  /\ conditions' = [conditions EXCEPT ![midx].completed = result]
           /\ episodeTriggers' = IF result THEN episodeTriggers ELSE 0
           /\ flipped' = (flipped \/ (result # c.completed))
    /\ midx' = midx + 1
    /\ mpc' = "eval"
    /\ UNCHANGED << market_data, task_queue, running, matcher_thread, mitem,
                    conditions_updated, all_completed, seen, controlVars, pending, stops >>
    /\ UNCHANGED executorVars
    /\ UNCHANGED recoveryVars
    /\ UNCHANGED healthVars
    /\ UNCHANGED shown
    /\ UNCHANGED callbackVars

\* A replacement that does not fall between the two writes of one condition.
ReplaceBetweenConditions == mpc # "eval_write" /\ Replace

FineNext ==
    \/ Feed
    \/ StartMatching
    \/ ReplaceBetweenConditions
    \/ AddConditions
    \/ ResetBegin
    \/ ResetStep
    \/ ControlCallbackReturn
    \/ LoopCheck
    \/ Drain
    \/ EvalRead
    \/ EvalWrite
    \/ NotifyCheck
    \/ UpdateCallbackReturn
    \/ CheckFire
    \/ ExecuteTrade
    \/ TradeCallbackReturn

FineSpec == Init /\ [][FineNext]_vars

\* ------------------------------- specification of add_conditions' contract
\* The list l as a pass on snapshot d leaves it.
Evaluated(l, d) ==
    [i \in 1..Len(l) |->
        [l[i] EXCEPT !.completed = EvaluateCondition(l[i], d).result,
                     !.current_value = EvaluateCondition(l[i], d).current_value]]

\* Lists a caller may hand to add_conditions: freshly parsed ones, and
\* Condition objects that an engine has evaluated before.
AddLists == TaskLists \cup { Evaluated(l, d) : l \in TaskLists, d \in Snapshots }

\* The caller clears the set and calls add_conditions with one of these lists.
ReplaceWith == \E new \in AddLists : ReplaceClear(new)

\* The engine is not started: only its caller's thread and the feed act.
AddNext ==
    \/ Feed
    \/ ReplaceWith
    \/ AddConditions
    \/ ResetBegin
    \/ ResetStep
    \/ ControlCallbackReturn

AddSpec == Init /\ [][AddNext]_vars

\* ------------------- specification of passes over a set with a faulty rule
\* A rule the parser can build ("==" comes from the [<>=]+ pattern of
\* condition_parser.py line 100) or a caller can construct with a threshold
\* that is not a number.
FaultyConds ==
    { Cond("task_1", ind, op, val) :
        ind \in {"RSI", "Price"}, op \in {"<", "=="}, val \in {30, NotANumber} }

SoundCond == Cond("task_2", "Volume", ">", 1000000)

\* The rule before and after a sound one.
FaultyLists == { << c, SoundCond >> : c \in FaultyConds } \cup { << SoundCond, c >> : c \in FaultyConds }

\* Snapshots whose price or RSI may be a value that is not a number.
FaultyData ==
    { MkData(p, v, r) : p \in {29, NotANumber}, v \in {500, 2000000}, r \in {29, NotANumber, Absent} }

\* A started engine holding one of the lists, with two snapshots submitted
\* and its thread at the top of _matching_loop.
FaultyInit ==
    \E l \in FaultyLists, d1 \in FaultyData, d2 \in FaultyData :
        /\ conditions = l
        /\ market_data = [s \in Symbols |-> IF s = "AAPL" THEN d2 ELSE NoData]
        /\ task_queue = << [symbol |-> "AAPL", data |-> d1], [symbol |-> "AAPL", data |-> d2] >>
        /\ running = TRUE
        /\ matcher_thread = "Thread"
        /\ mpc = "loop"
        /\ mitem = NoItem
        /\ midx = 1
        /\ conditions_updated = FALSE
        /\ all_completed = TRUE
        /\ cpc = "idle"
        /\ cnew = << >>
        /\ cidx = 1
        /\ seen = << >>
        /\ pending = << [symbol |-> "AAPL", data |-> d1], [symbol |-> "AAPL", data |-> d2] >>
        /\ episodeTriggers = 0
        /\ stops = 0
        /\ rpc = "idle"
        /\ mpc2 = "dead"
        /\ flipped = FALSE
        /\ shown = "nothing"
        /\ HealthInit
        /\ cbidx = 1
        /\ invoked = << >>
        /\ MainCallbacks
        /\ ExecutorInit(DefaultPortfolioValue, 0, FALSE)

\* The matcher thread works through the two snapshots.
FaultySpec == FaultyInit /\ [][Matcher]_vars

\* ------------------ specification of the walk over the registered callbacks
\* A loop that lets the exception of a callback end the notification.
AfterCallbackAbort(outcome, i, n) == IF outcome = "raises" THEN n + 1 ELSE i + 1

\* Lines 136-139 and 146-149: the call sits in try/except Exception inside
\* the for loop, so the loop goes on to the next callback either way.
AfterCallback(outcome, i, n) == i + 1

\* _notify_update on the matcher thread, lines 135-139, one callback a step;
\* after the last one line 94 follows.
UpdateCallbackStep ==
    /\ mpc = "update_cb"
    /\ IF cbidx <= Len(update_callbacks)
       THEN /\ invoked' = Append(invoked, cbidx)
            /\ cbidx' = AfterCallback(update_callbacks[cbidx], cbidx, Len(update_callbacks))
            /\ mpc' = mpc
       ELSE /\ cbidx' = 1
            /\ invoked' = << >>
            /\ mpc' = "check_fire"
    /\ UNCHANGED << conditions, market_data, task_queue, running, matcher_thread,
                    mitem, midx, conditions_updated, all_completed, seen,
                    controlVars, pending, episodeTriggers, stops,
                    update_callbacks, trade_callbacks >>
    /\ UNCHANGED executorVars
    /\ UNCHANGED recoveryVars
    /\ UNCHANGED healthVars
    /\ UNCHANGED shown
    /\ UNCHANGED flipped

\* _execute_trade, lines 145-149, one callback a step; after the last one
\* the pass returns.
TradeCallbackStep ==
    /\ mpc = "trade_cb"
    /\ IF cbidx <= Len(trade_callbacks)
       THEN /\ invoked' = Append(invoked, cbidx)
            /\ cbidx' = AfterCallback(trade_callbacks[cbidx], cbidx, Len(trade_callbacks))
            /\ mpc' = mpc
            /\ UNCHANGED << mitem, midx, conditions_updated, all_completed, seen, pending >>
       ELSE /\ cbidx' = 1
            /\ invoked' = << >>
            /\ PassReturns
    /\ UNCHANGED << conditions, market_data, task_queue, running, matcher_thread,
                    controlVars, episodeTriggers, stops,
                    update_callbacks, trade_callbacks >>
    /\ UNCHANGED executorVars
    /\ UNCHANGED recoveryVars
    /\ UNCHANGED healthVars
    /\ UNCHANGED shown
    /\ UNCHANGED flipped

\* Registrations of one or two callbacks, one of which may raise.
CallbackLists == { << "returns" >>, << "raises", "returns" >>, << "returns", "raises" >> }

ObserverInit ==
    /\ MatcherInit
    /\ \E ucs \in CallbackLists, tcs \in CallbackLists : Registered(ucs, tcs)
    /\ ExecutorInit(DefaultPortfolioValue, 0, FALSE)

\* The feed of one symbol: the oversold scenario and a snapshot without RSI.
ObserverFeed == \E d \in {Oversold, NoRsi} : UpdateMarketData("AAPL", d)

ObserverMatcher ==
    \/ LoopCheck
    \/ Drain
    \/ EvalStep
    \/ NotifyCheck
    \/ UpdateCallbackStep
    \/ CheckFire
    \/ ExecuteTrade
    \/ TradeCallbackStep

ObserverNext ==
    \/ ObserverFeed
    \/ ReplaceClear(ListA)
    \/ AddConditions
    \/ ControlCallbackReturn
    \/ StartMatching
    \/ ObserverMatcher

\* A started thread is scheduled again and again.
ObserverSpec == ObserverInit /\ [][ObserverNext]_vars /\ WF_vars(ObserverMatcher)

\* ------------------------ specification of add_conditions on a non-empty set
\* matcher.add_conditions(parser.parse_task_list(text)) called without
\* clearing the set first.
AddCall(new) ==
    /\ cpc = "idle"
    /\ Len(conditions) + Len(new) <= MaxConds
    /\ cnew' = new
    /\ cpc' = "extend"
    /\ UNCHANGED << conditions, market_data, task_queue, running, matcher_thread,
                    matcherVars, cidx, pending, episodeTriggers, stops >>
    /\ UNCHANGED executorVars
    /\ UNCHANGED recoveryVars
    /\ UNCHANGED healthVars
    /\ UNCHANGED shown
    /\ UNCHANGED callbackVars
    /\ UNCHANGED flipped

Add == \E new \in TaskLists : AddCall(new)

\* A caller that parses task lists and adds them to the set or replaces the
\* set with them, the feed beside it; the engine is not started.
AppendNext ==
    \/ Replace
    \/ Add
    \/ AddConditions
    \/ ControlCallbackReturn
    \/ Feed

AppendSpec == Init /\ [][AppendNext]_vars

\* ------------------------- specification of a feed that runs while stopped
\* The feed submits only while no matcher thread is alive: before the first
\* start_matching, or after a stop_matching has joined the thread.
StoppedFeed == mpc = "dead" /\ Feed

ColdNext == StoppedFeed \/ Matcher \/ Control

ColdSpec == Init /\ [][ColdNext]_vars /\ WF_vars(Matcher) /\ WF_vars(ControlProgress)

\* ------------------------------------ specification of the health monitor
\* HealthCheck.check, lines 42-47, with ConditionsEngineHealthCheck's
\* _check_health (lines 157-162): 'healthy' if matcher.running else
\* 'unhealthy'; the branch of lines 55-57 assigns 'unhealthy' again.
CheckStatus(r) == IF r THEN "healthy" ELSE "unhealthy"

\* check_all lines 206-208: the test that guards _trigger_alert, on
\* check.last_status.status as it is when line 206 runs.
ShouldAlert(last, status) ==
    last # "None" /\ last # status /\ status \in {"degraded", "unhealthy"}

\* check_all line 196: status = check.check().  check() stores the status
\* it is about to return in self.last_status (line 61); consecutive_failures
\* and is_healthy are written too and read by nothing modelled here.
HealthCheckRun(t) ==
    /\ hpc[t] = "idle"
    /\ hstatus' = [hstatus EXCEPT ![t] = CheckStatus(running)]
    /\ prev' = [prev EXCEPT ![t] = last_status]
    /\ last_status' = CheckStatus(running)
    /\ hpc' = [hpc EXCEPT ![t] = "compare"]
    /\ UNCHANGED alerted
    /\ UNCHANGED << engineVars, executorVars, recoveryVars >>

\* check_all lines 205-209 and what _trigger_alert reaches: every alert
\* callback, which is RecoveryManager._handle_health_alert (lines 306-318);
\* for an 'unhealthy' conditions_engine it calls restart_conditions_engine,
\* whose test of matcher.running (production_main.py line 127) is taken here.
HealthCompare(t) ==
    /\ hpc[t] = "compare"
    /\ rpc = "idle"
    /\ alerted' = [alerted EXCEPT ![t] = ShouldAlert(last_status, hstatus[t])]
    /\ rpc' = IF ShouldAlert(last_status, hstatus[t]) /\ hstatus[t] = "unhealthy" /\ ~running
              THEN "starting" ELSE "idle"
    /\ hpc' = [hpc EXCEPT ![t] = "idle"]
    /\ UNCHANGED << last_status, hstatus, prev >>
    /\ UNCHANGED << mpc2, engineVars, executorVars >>

HealthCheckAll == \E t \in Checkers : HealthCheckRun(t) \/ HealthCompare(t)

\* The engine is started and stopped by the application while the
\* monitoring loop and the health check server call check_all.
HealthNext ==
    \/ StartMatching
    \/ StopBegin
    \/ StopJoin
    \/ LoopCheck
    \/ Drain
    \/ HealthCheckAll
    \/ RecoveryStart
    \/ LoopCheck2
    \/ Drain2

HealthSpec == Init /\ [][HealthNext]_vars

\* ------------------------------------------------------------ properties
\* The matcher thread is inside _evaluate_conditions_for_symbol.
InPass == mpc \in {"eval", "notify", "update_cb", "check_fire", "exec_trade", "trade_cb"}

\* The step invokes a callback on the matcher thread.
MatcherCallbackInvoked == mpc' \in {"update_cb", "trade_cb"} /\ mpc' # mpc

\* The step invokes the update callbacks on the controlling thread.
ControlCallbackInvoked == cpc' \in {"add_cb", "reset_cb"} /\ cpc' # cpc

PerSymbol(q, s) == SelectSeq(q, LAMBDA it : it.symbol = s)

UnderEvaluation == IF InPass THEN << mitem >> ELSE << >>

CompleteRuleSets == { << >> } \cup { Rules(l) : l \in TaskLists }

\* C1. Edge-triggered firing: while a non-empty set stays fully satisfied
\* (no reset, no replacement, no flag evaluated false), the trade callbacks
\* are invoked once for the episode, not again on the following passes.
C1_EdgeTriggeredFiring == episodeTriggers <= 1

\* C2. Vacuous set never fires: the trade callback is never invoked while
\* the condition set is empty.
C2_VacuousSetNeverFires ==
    [][ (mpc = "exec_trade" /\ mpc' = "trade_cb") => conditions # << >> ]_vars

\* C3. Missing indicator never satisfies: an evaluation of a condition whose
\* indicator key the snapshot lacks leaves completed = False and
\* current_value as it was, whatever the stale value would compare to.
C3_MissingIndicatorNeverSatisfies ==
    [][ (/\ mpc = "eval"
         /\ midx <= Len(conditions)
         /\ midx' = midx + 1
         /\ ~IndicatorAvailable(conditions[midx], mitem.data))
        => (/\ conditions'[midx].completed = FALSE
            /\ conditions'[midx].current_value = conditions[midx].current_value) ]_vars

\* A pass has just judged a condition unsatisfied on a snapshot without its
\* indicator although the value it still holds passes the comparison.
C3_Witness ==
    /\ mpc = "eval"
    /\ \E i \in 1..Len(conditions) :
          /\ i < midx
          /\ i <= Len(seen)
          /\ seen[i] = Rule(conditions[i])
          /\ ~IndicatorAvailable(conditions[i], mitem.data)
          /\ conditions[i].current_value # NoValue
          /\ Compare(conditions[i].operator, conditions[i].current_value, conditions[i].value)
          /\ ~conditions[i].completed

\* C4. Atomic replacement: the rules a pass has evaluated are one complete
\* set (the old or the new one), and no callback runs while the set is the
\* empty intermediate between clear() and add_conditions.
C4_AtomicReplacement ==
    /\ (mpc \in {"notify", "update_cb", "check_fire", "exec_trade", "trade_cb"}
            => seen \in CompleteRuleSets)
    /\ (mpc \in {"update_cb", "trade_cb"} => cpc # "extend")

\* C5. Idempotent stop: during and after a second stop_matching on an
\* engine that was started and stopped, running is False, no thread is
\* alive (the join returns at once) and no snapshot is under evaluation.
C5_IdempotentStop ==
    (matcher_thread = "Thread" /\ ((stops = 1 /\ cpc = "join") \/ stops = 2))
        => (running = FALSE /\ mpc = "dead" /\ pending = task_queue)

\* A second stop has returned on a started engine that still holds snapshots.
C5_Witness ==
    /\ matcher_thread = "Thread"
    /\ stops = 2
    /\ cpc = "idle"
    /\ task_queue # << >>

C7_StopReturns == (cpc = "join") ~> (cpc = "idle")

\* C8. FIFO per symbol: the snapshots of a symbol whose pass has not
\* returned are, oldest first, the one under evaluation (if it is of that
\* symbol) followed by those still queued: a pass begins only for the oldest.
C8_FifoPerSymbol ==
    \A s \in Symbols :
        PerSymbol(pending, s) = PerSymbol(UnderEvaluation, s) \o PerSymbol(task_queue, s)

\* A snapshot is under evaluation while a different, later one of the same
\* symbol waits.
C8_Witness ==
    /\ InPass
    /\ \E i \in 1..Len(task_queue) :
          /\ task_queue[i].symbol = mitem.symbol
          /\ task_queue[i].data # mitem.data

\* C9. No lost updates: a submitted snapshot is queued or under evaluation
\* until its pass has returned (none dropped, none evaluated twice); a pass
\* that has begun returns; and while the engine runs and a snapshot is
\* queued, a pass begins unless the engine is stopped.
C9_NoLostUpdates ==
    /\ [](pending = UnderEvaluation \o task_queue)
    /\ (InPass ~> ~InPass)
    /\ ((running /\ task_queue # << >> /\ ~InPass) ~> (InPass \/ ~running))

\* A pass is about to return while the engine runs and later snapshots wait.
C9_Witness ==
    /\ running
    /\ mpc = "check_fire"
    /\ Len(task_queue) >= 1
    /\ Len(pending) = Len(task_queue) + 1

\* C10. update_market_data never waits: below the explored queue length it
\* can complete in every state, wherever the matcher thread, a callback or
\* the controlling thread is.
C10_SubmitNeverWaits ==
    Len(task_queue) < MaxQueue
        => \A in \in FeedInputs : ENABLED UpdateMarketData(in[1], in[2])

\* A snapshot is queued while the matcher thread is inside the trade
\* callback and the controlling thread waits in join.
C10_Witness ==
    /\ mpc = "trade_cb"
    /\ cpc = "join"
    /\ task_queue # << >>
    /\ Len(task_queue) < MaxQueue

\* C11. Bounded ingestion queue: the queue enforces a fixed capacity of its
\* own, so the number of pending snapshots stays below every length the
\* feed is allowed to try, however slowly the matcher thread evaluates.
C11_BoundedQueue == Len(task_queue) < MaxQueue

\* C12. Comparator correctness: an evaluation of a condition whose indicator
\* the snapshot holds sets completed to (snapshot value op threshold) for
\* each of <, >, <=, >=; when the value equals the threshold, <= and >=
\* give true and < and > give false.
C12_ComparatorCorrect ==
    [][ (/\ mpc = "eval"
         /\ midx <= Len(conditions)
         /\ midx' = midx + 1
         /\ IndicatorAvailable(conditions[midx], mitem.data))
        => LET c == conditions[midx]
               x == ReadIndicator(c, mitem.data)
               sat == conditions'[midx].completed
           IN  /\ (c.operator = "<" => (sat <=> x < c.value))
               /\ (c.operator = ">" => (sat <=> x > c.value))
               /\ (c.operator = "<=" => (sat <=> x <= c.value))
               /\ (c.operator = ">=" => (sat <=> x >= c.value))
               /\ (x = c.value => (sat <=> c.operator \in {"<=", ">="}))
               /\ conditions'[midx].current_value = x ]_vars

\* A ">=" condition has been judged satisfied on a value equal to its threshold.
C12_Witness ==
    /\ mpc = "notify"
    /\ conditions[1].operator = ">="
    /\ conditions[1].current_value = conditions[1].value
    /\ conditions[1].completed

\* The step is a call of execute_trade.
ExecuteTradeCalled == call'.n # call.n

\* The executions that _simulate_execution produced.
Simulated(e) == e # NoExecution /\ e.execution_id[1] = "EXEC"

\* C13. Daily-loss gate: a call of execute_trade made while
\* daily_pnl <= -max_daily_loss (the limit itself included) returns no
\* execution, sends no order to the broker or the simulator and leaves
\* executed_trades as it was.
C13_DailyLossGate ==
    [][ (ExecuteTradeCalled /\ daily_pnl <= -max_daily_loss)
        => (/\ call'.execution = NoExecution
            /\ call'.sent = << >>
            /\ executed_trades' = executed_trades) ]_vars

\* C14. Position-size gate: no order that execute_trade sends has a notional
\* (snapshot price x order quantity) above max_position_size.
C14_PositionSizeGate ==
    [][ ExecuteTradeCalled
        => \A i \in 1..Len(call'.sent) :
               call'.data.price * call'.sent[i].order.quantity <= max_position_size ]_vars

\* C15. Position sizing: the share count of the order is the largest whole
\* number q with q x (price x stop_loss_percentage) <=
\* portfolio_value x max_risk_per_trade (333 for 100000, 0.01, 0.02 and
\* price 150); when that number is 0 or less, execute_trade returns no
\* execution, sends nothing and leaves executed_trades as it was.
C15_PositionSizing ==
    /\ CalculatePositionSize(100000, MkData(150, 2000000, 25)) = 333
    /\ [][ (ExecuteTradeCalled /\ call'.returned_at # "risk")
           => LET num == portfolio_value * max_risk_per_trade
                  den == call'.data.price * stop_loss_percentage
              IN  IF num < den
                  THEN /\ call'.execution = NoExecution
                       /\ call'.sent = << >>
                       /\ executed_trades' = executed_trades
                  ELSE /\ call'.sent # << >>
                       /\ LET q == call'.sent[1].order.quantity
                          IN  q * den <= num /\ num < (q + 1) * den ]_vars

\* An order of 555 shares has been sent for price 90: 1000 / 1.80 = 555.55...
C15_Witness ==
    /\ call.returned_at = "end"
    /\ call.data.price = 90
    /\ call.sent[1].order.quantity = 555

\* C16. Ledger discipline: a call of execute_trade that returns an execution
\* appends exactly that execution to executed_trades, a call that returns
\* None appends nothing, and no step of the executor removes, reorders or
\* changes the entries already there.
C16_LedgerDiscipline ==
    [][ /\ (ExecuteTradeCalled
              => executed_trades' = IF call'.execution # NoExecution
                                    THEN Append(executed_trades, call'.execution)
                                    ELSE executed_trades)
        /\ (~ExecuteTradeCalled => executed_trades' = executed_trades)
        /\ Len(executed_trades') >= Len(executed_trades)
        /\ SubSeq(executed_trades', 1, Len(executed_trades)) = executed_trades ]_vars

\* A second execution has been appended behind a different first one.
C16_Witness ==
    /\ Len(executed_trades) = 2
    /\ executed_trades[1] # executed_trades[2]
    /\ call.execution = executed_trades[2]

\* C17. Simulated fallback: with a real broker in use, a call of
\* execute_trade that passes the risk and size gates returns an execution
\* and appends it, whether the broker fills the order, raises or returns None.
C17_SimulatedFallback ==
    [][ (ExecuteTradeCalled /\ using_real_broker /\ call'.returned_at = "end")
        => (/\ call'.execution # NoExecution
            /\ executed_trades' = Append(executed_trades, call'.execution)) ]_vars

\* C18. Simulated fill shape: an execution produced by _simulate_execution
\* has the order's quantity, an execution id, an executed price within
\* 0.05% of the snapshot price and a commission of 0.001 x executed_price x
\* executed_quantity.
C18_SimulatedFillShape ==
    \A e \in {call.execution} \cup {executed_trades[i] : i \in 1..Len(executed_trades)} :
        Simulated(e)
        => LET p == e.order.price * PriceScale
               diff == IF e.executed_price >= p THEN e.executed_price - p
                       ELSE p - e.executed_price
           IN  /\ e.executed_quantity = e.order.quantity
               /\ e.execution_id[2] >= 0
               /\ diff * PriceScale <= MaxSlippage * p
               /\ e.commission = (e.executed_price * e.executed_quantity) * CommissionPerMille
               /\ (e = call.execution => e.order.price = call.data.price)

\* A simulated fill at the upper end of the slippage is in the ledger.
C18_Witness ==
    /\ executed_trades # << >>
    /\ Simulated(executed_trades[1])
    /\ executed_trades[1].executed_price > executed_trades[1].order.price * PriceScale
    /\ executed_trades[1].commission > 0

\* C19. Execution ids are unique: no two entries of executed_trades have
\* the same execution_id.
C19_UniqueExecutionIds ==
    \A i, j \in 1..Len(executed_trades) :
        i # j => executed_trades[i].execution_id # executed_trades[j].execution_id

\* C20. Risk rejection closes the episode: while the set has stayed fully
\* satisfied since a trigger whose execute_trade was rejected by the risk
\* checks, the trade callback is not invoked again.
C20_RejectionClosesEpisode ==
    [][ (/\ mpc = "exec_trade"
         /\ mpc' = "trade_cb"
         /\ episodeTriggers >= 1
         /\ AllSatisfied(conditions))
        => call.returned_at # "risk" ]_vars

\* The matcher thread takes the next snapshot from the queue and starts its pass.
DequeueNext == Drain /\ mpc' = "eval"

\* C21. A slow broker call cannot stall evaluation: while the trade
\* callback of one snapshot is inside execute_trade, waiting for the broker,
\* a snapshot waiting in the queue can be dequeued and evaluated.
C21_BrokerCallDoesNotStall ==
    (using_real_broker /\ mpc = "trade_cb" /\ task_queue # << >>) => ENABLED DequeueNext

\* The snapshot d alone satisfies the rule r.
RuleHolds(r, d) ==
    /\ IndicatorAvailable(r, d)
    /\ Compare(r.operator, ReadIndicator(r, d), r.value)

\* C22. Symbol independence: whether a pass fires is decided by the rules it
\* evaluated and by its own snapshot alone: once the rules are evaluated,
\* all_completed says that the snapshot satisfies each of them, whatever
\* earlier passes (of any symbol) left in the conditions, in market_data or
\* in the queue; and the pass calls _execute_trade exactly when that holds
\* and the set is not empty.
C22_SymbolIndependence ==
    /\ [](mpc \in {"notify", "update_cb", "check_fire", "exec_trade", "trade_cb"}
            => (all_completed <=> \A i \in 1..Len(seen) : RuleHolds(seen[i], mitem.data)))
    /\ [][ (mpc = "check_fire" /\ mpc' # mpc)
           => (mpc' = "exec_trade" <=> (all_completed /\ conditions # << >>)) ]_vars

\* A pass of AAPL fires although the latest snapshot of MSFT, still queued,
\* does not satisfy the set.
C22_Witness ==
    /\ mpc = "exec_trade"
    /\ mitem.symbol = "AAPL"
    /\ seen # << >>
    /\ \E i \in 1..Len(task_queue) :
          /\ task_queue[i].symbol = "MSFT"
          /\ market_data["MSFT"] = task_queue[i].data
          /\ \E j \in 1..Len(seen) : ~RuleHolds(seen[j], task_queue[i].data)

\* C23. Trigger implies all satisfied: whenever the trade callback is
\* invoked, the list it is handed is not empty and every condition in it is
\* completed, however the pass interleaves with conditions.clear(),
\* add_conditions and reset_conditions of the controlling thread.
C23_TriggerImpliesAllSatisfied ==
    [][ (mpc = "exec_trade" /\ mpc' = "trade_cb")
        => (/\ conditions # << >>
            /\ \A i \in 1..Len(conditions) : conditions[i].completed) ]_vars

\* C24. At most one evaluation thread: whatever the interleaving of
\* start_matching and stop_matching calls made by the main thread and by
\* the recovery thread, at most one _matching_loop thread is alive.
C24_AtMostOneThread == ~(mpc # "dead" /\ mpc2 # "dead")

\* The step is one of the controlling thread.
ControlStep == cpc' # cpc \/ cidx' # cidx \/ cnew' # cnew

\* C25. Single-writer discipline: while an evaluation pass is in progress,
\* no step of the controlling thread (add_conditions, reset_conditions,
\* replacement) writes completed or current_value of a condition of the set.
C25_SingleWriter ==
    [][ (InPass /\ ControlStep)
        => \A i \in 1..Len(conditions) :
               i <= Len(conditions')
               => (/\ conditions'[i].completed = conditions[i].completed
                   /\ conditions'[i].current_value = conditions[i].current_value) ]_vars

\* C26. Satisfaction invariant: a condition is completed only as the result
\* of (current_value op threshold): completed is never true while
\* current_value is None or while current_value fails the comparison.
C26_SatisfactionInvariant ==
    \A i \in 1..Len(conditions) :
        conditions[i].completed
        => (/\ conditions[i].current_value # NoValue
            /\ Compare(conditions[i].operator, conditions[i].current_value,
                       conditions[i].value))

\* C27. add_conditions resets state: when add_conditions returns, every
\* condition of the set has completed = False and current_value = None,
\* whatever the objects handed in held.
C27_AddConditionsResets ==
    [][ (cpc = "add_cb" /\ cpc' = "idle")
        => \A i \in 1..Len(conditions') :
               /\ conditions'[i].completed = FALSE
               /\ conditions'[i].current_value = NoValue ]_vars

\* C28. State-changed notification on flips: a pass invokes the update
\* callbacks exactly once, at its line 91, when its assignments changed some
\* condition's completed flag, and not at all when they changed none.
C28_NotifyIffFlagChanged ==
    [][ /\ (mpc = "notify" /\ mpc' # mpc) => (mpc' = "update_cb" <=> flipped)
        /\ (mpc' = "update_cb" /\ mpc # "update_cb") => mpc = "notify" ]_vars

EvaluationFails(c, d) ==
    /\ IndicatorAvailable(c, d)
    /\ \/ c.operator \notin {"<", ">", "<=", ">="}
       \/ ComparisonRaises(c.operator, ReadIndicator(c, d), c.value)

\* C30. Per-condition failure isolation: a condition whose comparison raises
\* or whose operator is unknown ends its evaluation with completed = False
\* and the for loop goes on to the next condition; the pass reaches line 91
\* only after it has evaluated every condition of the set, and the thread
\* stays in _matching_loop.
C30_FailureIsolation ==
    /\ [](mpc = "notify" => Rules(conditions) = seen)
    /\ [](mpc # "dead")
    /\ [][ ( /\ mpc = "eval" /\ midx <= Len(conditions)
             /\ EvaluationFails(conditions[midx], mitem.data) )
           => /\ conditions'[midx].completed = FALSE
              /\ mpc' = "eval"
              /\ midx' = midx + 1 ]_vars

\* A pass is at line 91 after a raising comparison on its first condition
\* and has evaluated the sound condition behind it as met.
C30_Witness ==
    /\ mpc = "notify"
    /\ ComparisonRaises(conditions[1].operator, conditions[1].current_value, conditions[1].value)
    /\ ~conditions[1].completed
    /\ conditions[2].completed

Positions(cbs) == [i \in 1..Len(cbs) |-> i]

\* C31. Observer isolation: a notification on the matcher thread ends only
\* after every registered callback was called, in registration order,
\* whether or not one of them raised; the pass then completes and the
\* thread is back at the queue.
C31_ObserverIsolation ==
    /\ [][ /\ (mpc = "update_cb" /\ mpc' # mpc) => invoked = Positions(update_callbacks)
           /\ (mpc = "trade_cb" /\ mpc' # mpc) => invoked = Positions(trade_callbacks) ]_vars
    /\ [](mpc \in {"update_cb", "trade_cb"} => <>(mpc = "drain"))

\* The notification has called a callback that raised and the one
\* registered after it.
C31_Witness ==
    /\ mpc = "trade_cb"
    /\ trade_callbacks = << "raises", "returns" >>
    /\ invoked = << 1, 2 >>

\* The orders of the latest call that carry the trade itself: the first one
\* sent and the one the simulator got.
PrimaryOrders ==
    { call.sent[i].order : i \in { j \in 1..Len(call.sent) : j = 1 \/ call.sent[j].to = "simulator" } }

\* C32. Primary order shape: every order execute_trade hands to the broker
\* or to the simulator as the trade is a 'market' order for the symbol of
\* the call, with a whole quantity above zero, the snapshot's price and
\* time_in_force 'IOC'.
C32_PrimaryOrderShape ==
    \A o \in PrimaryOrders :
        /\ o.order_type = "market"
        /\ o.symbol = call.symbol
        /\ o.quantity \in Nat /\ o.quantity > 0
        /\ o.price = call.data.price
        /\ o.stop_price = NoValue
        /\ o.time_in_force = "IOC"

\* A call whose order went to the broker and, after the broker raised, to
\* the simulator.
C32_Witness ==
    /\ call.returned_at = "end"
    /\ Len(call.sent) >= 2
    /\ call.sent[1].to = "broker"
    /\ call.sent[2].to = "simulator"

\* C33. Real vs simulated is distinguishable: an execution that
\* _simulate_execution produced, with no broker connected or as the
\* fallback of a failed broker call, is reported as SIMULATED and never as
\* a REAL trade.
C33_SimulatedNeverReportedReal ==
    Simulated(call.execution) => TradeTypeReported(using_real_broker) = "SIMULATED"

\* C34. task_id uniqueness: the conditions of the active set have pairwise
\* distinct task_id values in every reachable state.
C34_UniqueTaskIds ==
    \A i, j \in 1..Len(conditions) :
        conditions[i].task_id = conditions[j].task_id => i = j

\* C35. Trade uses the triggering snapshot: when the trigger of a pass on
\* snapshot d of symbol S leads to execute_trade, the market data handed to
\* execute_trade is d, whatever was submitted for S after d.
C35_TradeUsesTriggeringSnapshot ==
    [][ (mpc = "trade_cb" /\ ExecuteTradeCalled)
        => (call'.symbol = mitem.symbol /\ call'.data = mitem.data) ]_vars

\* C36. execute_trade leaves the risk state untouched: no call of
\* execute_trade changes daily_pnl or portfolio_value (the risk parameters
\* are fixed); daily_pnl changes only in reset_daily_account, to 0, and
\* only when the day number is greater than last_reset_date.
C36_RiskStateFrame ==
    [][ /\ ExecuteTradeCalled
           => (daily_pnl' = daily_pnl /\ portfolio_value' = portfolio_value)
        /\ portfolio_value' = portfolio_value
        /\ daily_pnl' # daily_pnl
           => (daily_pnl' = 0 /\ today > last_reset_date /\ last_reset_date' = today) ]_vars

\* An accepted call has returned on the loss limit and the daily P&L is
\* still the one the call met.
C36_Witness ==
    /\ call.returned_at = "end"
    /\ call.execution # NoExecution
    /\ call.pnl = -max_daily_loss
    /\ daily_pnl = call.pnl

\* The latest call submitted a stop-loss or take-profit order.
ProtectiveOrdersSent ==
    \E i \in 1..Len(call.sent) : call.sent[i].order.order_type \in {"stop", "limit"}

\* C37. Protective orders only follow a broker fill: the stop-loss and
\* take-profit orders are submitted only after an execution the broker
\* itself filled, never after one of the simulated fallback, and what they
\* return is never appended to executed_trades.
C37_ProtectiveOrdersFollowBrokerFill ==
    /\ ProtectiveOrdersSent
       => (call.execution # NoExecution /\ ~Simulated(call.execution))
    /\ \A i \in 1..Len(executed_trades) : executed_trades[i].order.order_type = "market"

\* C38. Notification order within a pass: when a pass that flipped a flag
\* calls the trade callbacks on a fully satisfied set, it has called the
\* update callbacks before, and it handed them the fully satisfied set.
C38_UpdateBeforeTrade ==
    [][ (mpc = "exec_trade" /\ mpc' = "trade_cb" /\ flipped /\ AllSatisfied(conditions))
        => shown = "satisfied" ]_vars

\* C39. Snapshots submitted while the engine is stopped are kept and
\* evaluated after a start: a submission made while no matcher thread is
\* alive is appended to the queue, nothing leaves the queue while none is
\* alive, the snapshots get their passes oldest first, and once a thread
\* has been started with snapshots queued a pass begins (unless the engine
\* is stopped again first).
C39_StoppedSnapshotsAreKept ==
    /\ [][ mpc = "dead"
           => /\ Len(task_queue') >= Len(task_queue)
              /\ SubSeq(task_queue', 1, Len(task_queue)) = task_queue
              /\ \A s \in Symbols :
                    market_data'[s] # market_data[s]
                    => task_queue' = Append(task_queue, [symbol |-> s, data |-> market_data'[s]]) ]_vars
    /\ [](pending = UnderEvaluation \o task_queue)
    /\ ((mpc = "loop" /\ running /\ task_queue # << >>) ~> (InPass \/ ~running))

\* The trade callback runs for a snapshot that was submitted while the
\* engine was stopped and is no longer the symbol's latest one.
C39_Witness ==
    /\ mpc = "trade_cb"
    /\ market_data[mitem.symbol] # mitem.data
    /\ AllSatisfied(conditions)

\* C40. Health alerts on status change: when a check_all finds the check's
\* status different from the one it had at the previous check_all, and the
\* new status is 'degraded' or 'unhealthy', that check_all calls the alert
\* callbacks.
C40_AlertOnStatusChange ==
    [][ \A t \in Checkers :
           ( /\ hpc[t] = "compare" /\ hpc'[t] = "idle"
             /\ prev[t] # "None" /\ prev[t] # hstatus[t]
             /\ hstatus[t] \in {"degraded", "unhealthy"} )
           => alerted'[t] ]_vars

=============================================================================
